---- MODULE Spec2Model ----
(***************************************************************************)
(* Document aggregation layer of Universal-Search: the aggregators         *)
(* searchDocuments / getAllDocuments (src/lib/document-service.ts and the  *)
(* cached, retrying variant in src/unnamed/part_002 lines 587-1088), the   *)
(* Document Fetcher fetchDocumentContent with its Content Cache, and the   *)
(* docs search route (src/unnamed/part_005).                               *)
(*                                                                         *)
(* A step of the model is the code between two await points.  The Token    *)
(* Store, the OAuth token endpoint and the Drive / Docs APIs are external: *)
(* every response they can give is a nondeterministic choice.              *)
(***************************************************************************)
EXTENDS Integers, Sequences, FiniteSets, TLC

(***************************************************************************)
(* Program constants                                                       *)
(***************************************************************************)
CACHE_TTL == 1000 * 60 * 30
MAX_RETRIES == 3
RETRY_DELAY == 1000
ROUTE_MAX_RETRIES == 2
\* limits of the chat route (src/unnamed/part_009 lines 9-11)
MAX_SEARCH_TERMS == 5
MAX_DOCUMENTS == 10
MIN_TERM_LENGTH == 3

(***************************************************************************)
(* Bounds of the model                                                     *)
(***************************************************************************)
\* longest listing the Drive API answers with
MaxFiles == 2
\* how many 429 / 503 answers the provider gives in one behaviour
MaxThrottles == 1
\* how many 429 / 503 answers it gives to the one fetch of RetrySpec
MaxRetriesSeen == 4
\* how many direct fetchDocumentContent calls one behaviour makes
MaxFetches == 2
\* longest list of items a PDF page's text content has
MaxRuns == 3
\* longest result of the chat route's single searchDocuments call
MaxFound == 12
\* longest result of one of the chat route's per-term searchDocuments calls
MaxTermDocs == 2
\* expires_in (seconds) of a token the OAuth endpoint issues
ExpiresIn == 3600

(***************************************************************************)
(* Values                                                                  *)
(***************************************************************************)
\* the JavaScript value undefined / null where a string is expected
Undefined == "<undefined>"
NoCred ==
  [userId |-> "u1", provider |-> "google", accessToken |-> Undefined, refreshToken |-> Undefined,
   expiresAt |-> -1, exists |-> FALSE]
FileIds == {"f1", "f2"}
\* the access token of the OAuth code exchange, and the one a refresh issues
StoredToken == "at0"
FreshToken == "at1"
\* text a remote document can hold; the empty text is a document with no content
Texts == {"", "x", "y"}

(***************************************************************************)
(* Strings (JavaScript String methods used by the code)                    *)
(***************************************************************************)
\* Math.min
Min(a, b) == IF a < b THEN a ELSE b

\* String.prototype.includes
Includes(s, sub) ==
  \E i \in 1..(Len(s) - Len(sub) + 1) : SubSeq(s, i, i + Len(sub) - 1) = sub

\* String.prototype.trim, over the one whitespace character of the alphabet
RECURSIVE TrimLeft(_)
TrimLeft(s) ==
  IF Len(s) > 0 /\ SubSeq(s, 1, 1) = " " THEN TrimLeft(SubSeq(s, 2, Len(s))) ELSE s

RECURSIVE TrimRight(_)
TrimRight(s) ==
  IF Len(s) > 0 /\ SubSeq(s, Len(s), Len(s)) = " "
  THEN TrimRight(SubSeq(s, 1, Len(s) - 1)) ELSE s

Trim(s) == TrimRight(TrimLeft(s))

\* accessToken?.trim() is falsy: undefined, empty or only whitespace
BlankToken(t) == t = Undefined \/ Trim(t) = ""

\* String.prototype.split(' '): the pieces between single spaces, empty ones kept
RECURSIVE SplitSpace(_)
SplitSpace(s) ==
  IF ~Includes(s, " ") THEN <<s>>
  ELSE LET i == CHOOSE k \in 1..Len(s) :
                  /\ SubSeq(s, k, k) = " "
                  /\ \A j \in 1..(k - 1) : SubSeq(s, j, j) # " "
       IN <<SubSeq(s, 1, i - 1)>> \o SplitSpace(SubSeq(s, i + 1, Len(s)))

\* term.replace(/['"]/g, '')
RECURSIVE RemoveQuotes(_)
RemoveQuotes(s) ==
  IF Len(s) = 0 THEN ""
  ELSE LET c == SubSeq(s, 1, 1)
           rest == RemoveQuotes(SubSeq(s, 2, Len(s)))
       IN IF c = "'" \/ c = "\"" THEN rest ELSE c \o rest

RECURSIVE SelectTerms(_)
SelectTerms(ts) ==
  IF ts = <<>> THEN <<>>
  ELSE IF Len(Head(ts)) >= 2 THEN <<Head(ts)>> \o SelectTerms(Tail(ts))
       ELSE SelectTerms(Tail(ts))

\* part_002 lines 706-708: split, trim, drop terms shorter than 2, remove quotes
CleanTerms(query) ==
  LET parts == SplitSpace(query)
      trimmed == [i \in 1..Len(parts) |-> Trim(parts[i])]
      kept == SelectTerms(trimmed)
  IN [i \in 1..Len(kept) |-> RemoveQuotes(kept[i])]

\* the query strings a caller passes
Queries == {"", "a", "ab"}

(***************************************************************************)
(* Remote files and MIME dispatch (part_002 lines 764-779)                 *)
(***************************************************************************)
SUPPORTED_MIME_TYPES ==
  [m \in { "application/vnd.google-apps.document",
           "application/vnd.google-apps.spreadsheet",
           "application/vnd.google-apps.presentation",
           "application/pdf",
           "text/plain",
           "application/vnd.openxmlformats-officedocument.wordprocessingml.document",
           "application/vnd.openxmlformats-officedocument.spreadsheetml.sheet",
           "application/vnd.openxmlformats-officedocument.presentationml.presentation",
           "application/msword",
           "application/vnd.ms-excel",
           "application/vnd.ms-powerpoint" } |->
     CASE m = "application/vnd.google-apps.document" -> "googleDoc"
       [] m = "application/vnd.google-apps.spreadsheet" -> "googleSheet"
       [] m = "application/vnd.google-apps.presentation" -> "googleSlides"
       [] m = "application/pdf" -> "pdf"
       [] m = "text/plain" -> "text"
       [] OTHER -> "binary"]

\* a MIME type outside the table
UnsupportedMimes == {"image/png"}
MimeTypes == DOMAIN SUPPORTED_MIME_TYPES \cup UnsupportedMimes

\* a dispatch that treats every unknown MIME type as a binary file
DocTypeOfLenient(m) == IF m \in DOMAIN SUPPORTED_MIME_TYPES THEN SUPPORTED_MIME_TYPES[m] ELSE "binary"

\* SUPPORTED_MIME_TYPES[mimeType as SupportedMimeType], undefined when absent
DocTypeOf(m) == IF m \in DOMAIN SUPPORTED_MIME_TYPES THEN SUPPORTED_MIME_TYPES[m] ELSE Undefined

\* the record of a file in a listing response, and the name its metadata carries
FileName(id) == "doc-" \o id
RemoteFile(id) ==
  [id |-> id, name |-> FileName(id), webViewLink |-> "https://drive/" \o id,
   modifiedTime |-> "mt-" \o id]

RECURSIVE SeqsUpTo(_, _)
SeqsUpTo(S, n) ==
  IF n = 0 THEN {<<>>}
  ELSE LET shorter == SeqsUpTo(S, n - 1)
       IN shorter \cup {Append(q, x) : q \in shorter, x \in S}

\* the file lists a 2xx listing response can carry
Listings == SeqsUpTo({RemoteFile(id) : id \in FileIds}, MaxFiles)

\* failures of a googleapis call: error.code and error.message
ApiErrors ==
  { [code |-> 429, message |-> "Rate Limit Exceeded"],
    [code |-> 503, message |-> "Service Unavailable"],
    [code |-> 404, message |-> "File not found"],
    [code |-> 500, message |-> ""] }

Retryable(err) == err.code = 429 \/ err.code = 503

\* bodies of a 2xx answer of the OAuth token endpoint
RefreshBodies ==
  { [access_token |-> FreshToken, expires_in |-> ExpiresIn],
    [access_token |-> Undefined, expires_in |-> ExpiresIn] }

(***************************************************************************)
(* Placeholder strings of fetchDocumentContent (part_002 lines 856-949)    *)
(***************************************************************************)
UnsupportedPlaceholder(m) == "[Unsupported file type: " \o m \o "]"
NoContentPlaceholder(name) == "[No content available in " \o name \o "]"
PdfErrorPlaceholder == "[Error: Unable to parse PDF content]"
BinaryErrorPlaceholder(name) == "[Error: Unable to process binary file " \o name \o "]"
ExcelPlaceholder(name) ==
  "[Excel document content: " \o name \o ". Binary format - full text extraction not available]"
BinaryPlaceholder(name) ==
  "[Binary file: " \o name \o ". Format not fully supported for text extraction]"
WordEmptyPlaceholder == "[No text content found in Word document]"
ErrorPlaceholder(err) ==
  "[Error: " \o (IF err.message # "" THEN err.message ELSE "Failed to fetch document content") \o "]"

\* a string of the form [...]
Bracketed(s) == Len(s) >= 2 /\ SubSeq(s, 1, 1) = "[" /\ SubSeq(s, Len(s), Len(s)) = "]"

(***************************************************************************)
(* State                                                                   *)
(***************************************************************************)
VARIABLES
  now,            \* Date.now()
  store,          \* Token Store: the Credential of (user, "google")
  cache,          \* documentCache: file id -> entry
  budget,         \* 429 / 503 answers the provider may still give
  pc,             \* await point the request is suspended at
  op,             \* "searchDocuments" | "getAllDocuments" | "GET"
  variant,        \* "lib" (document-service.ts) | "rich" (part_002) | "route"
  query,          \* the query parameter
  expiredAtStart, \* the Credential was expired when the call started
  startStore,     \* the Credential when the call started
  tok,            \* token.accessToken / accessToken of the call
  refreshed,      \* refreshedToken
  files,          \* data.files
  idx,            \* position of the for loop over data.files
  documents,      \* documents
  retryCount,     \* retryCount of the route's listing loop
  result,         \* outcome of the call
  caller,         \* who awaits the running fetchDocumentContent
  fid,            \* documentId
  ftok,           \* accessToken parameter of fetchDocumentContent
  mimeType,       \* file.data.mimeType
  retries,        \* recursion depth of the running fetchDocumentContent
  fetches,        \* direct fetchDocumentContent calls made
  fstart,         \* when the running direct fetch was called, and the cache entry then
  hist,           \* requests the call has issued so far, and the tokens they carried
  log,            \* the direct fetchDocumentContent calls that have completed
  items,          \* textContent.items of parseText
  pos,            \* position of parseText's loop over the items
  lastY,          \* lastY of parseText
  pushed,         \* text of parseText: the strings pushed so far
  joined,         \* what parseText returned
  reqs,           \* concurrent fetchDocumentContent calls: await point and locals of each
  writes,         \* documentCache.set calls made by the concurrent fetches, in order
  remote,         \* the Drive file the concurrent fetches ask for: MIME type and text
  calls,          \* concurrent aggregation calls: await point and locals of each
  issued,         \* access tokens the OAuth endpoint has issued so far
  http,           \* the HTTP request being served: its route and the status answered
  chat,           \* locals of the chat route's POST handler
  oauth           \* the OAuth callback request and what its handler has done

envVars == <<now, store, cache, budget>>
callVars == <<op, variant, query, expiredAtStart, startStore>>
aggVars == <<tok, refreshed, files, idx, documents, retryCount>>
fetchVars == <<caller, fid, ftok, mimeType, retries, fetches, fstart>>
parseVars == <<items, pos, lastY, pushed, joined>>
raceVars == <<reqs, writes, remote>>
concVars == <<calls, issued>>
webVars == <<http, chat, oauth>>
otherVars == <<parseVars, raceVars, concVars, webVars>>
vars == <<envVars, callVars, aggVars, fetchVars, pc, result, hist, log, otherVars>>

NoEntry == [content |-> "", timestamp |-> -1]
NoBody == [access_token |-> Undefined, expires_in |-> 0]
NoResult == [kind |-> "none", cause |-> "", status |-> 0]
NoRemote == [mimeType |-> "", text |-> ""]
NoHttp == [route |-> "none", status |-> 0]
NoChat ==
  [pc |-> "idle", variant |-> "", terms |-> <<>>, pos |-> 0, found |-> <<>>,
   documents |-> <<>>, searches |-> 0, fellBack |-> FALSE]
NoRequest ==
  [error |-> Undefined, state |-> Undefined, storedState |-> Undefined, userId |-> Undefined,
   code |-> Undefined, session |-> FALSE]
NoTokenData == [access_token |-> Undefined, refresh_token |-> Undefined, expires_in |-> 0]
NoOAuth ==
  [pc |-> "idle", variant |-> "", req |-> NoRequest, cookies |-> {}, tokenData |-> NoTokenData,
   status |-> 0, to |-> "", error |-> Undefined]

\* refresh, write, list: requests to the OAuth endpoint, Token Store writes,
\* listing requests; listFailed: listing requests answered non-2xx; meta:
\* metadata (or Docs API) requests, one per attempt to fetch a file remotely;
\* throttled: 429 / 503 answers to the requests of fetchDocumentContent;
\* toks: the access tokens the Drive / Docs requests carried
NoHist ==
  [refresh |-> 0, write |-> 0, list |-> 0, listFailed |-> 0, meta |-> 0, throttled |-> 0,
   toks |-> {}]

\* one more request of the given kind, carrying the access token t
Sent(h, kind, t) ==
  [h EXCEPT ![kind] = h[kind] + 1, !.toks = h.toks \cup {t}]

\* a further request of an attempt already counted, carrying the access token t
Carried(h, t) == [h EXCEPT !.toks = h.toks \cup {t}]

\* the request just sent was answered with err
Answered(h, err) ==
  IF err.code = 429 \/ err.code = 503 THEN [h EXCEPT !.throttled = @ + 1] ELSE h

\* a credential check that lets a missing Credential pass
AlwaysConnected(cred) == TRUE

\* if (!token) (document-service.ts line 28)
Connected(cred) == cred.exists

\* an expiry check that never finds the token expired
TokenNeverExpired(t, expiresAt) == FALSE

\* new Date() > token.expiresAt
TokenExpired(t, expiresAt) == t > expiresAt

AggOps == {"searchDocuments", "getAllDocuments"}

Cred(r, e) ==
  [userId |-> "u1", provider |-> "google", accessToken |-> StoredToken, refreshToken |-> r,
   expiresAt |-> e, exists |-> TRUE]

\* the Token Store before the call, the clock reading 1: no Credential, one
\* expiring at this very instant, an expired one with and without a refresh
\* token
CredStates == {NoCred, Cred("rt0", 1), Cred("rt0", 0), Cred(Undefined, 0)}

\* let lastY = undefined, among the numbers transform[5] takes
NoY == -1

\* nothing but the one request of the specification is running
OthersIdle ==
  /\ items = <<>> /\ pos = 0 /\ lastY = NoY /\ pushed = <<>> /\ joined = Undefined
  /\ reqs = <<>> /\ writes = <<>> /\ remote = NoRemote
  /\ calls = <<>> /\ issued = 0
  /\ http = NoHttp /\ chat = NoChat /\ oauth = NoOAuth

InitCommon ==
  /\ OthersIdle
  /\ now = 1
  /\ cache = [id \in FileIds |-> NoEntry]
  /\ pc = "idle"
  /\ op = "" /\ variant = "" /\ query = ""
  /\ expiredAtStart = FALSE
  /\ tok = Undefined
  /\ refreshed = NoBody
  /\ files = <<>>
  /\ idx = 0
  /\ documents = <<>>
  /\ retryCount = 0
  /\ result = NoResult
  /\ fid = "" /\ ftok = Undefined /\ mimeType = ""
  /\ retries = 0
  /\ fetches = 0
  /\ fstart = [at |-> 0, entry |-> NoEntry]
  /\ hist = NoHist
  /\ log = <<>>

Init ==
  /\ InitCommon
  /\ store \in CredStates
  /\ startStore = store
  /\ caller = "agg"
  /\ budget = MaxThrottles

(***************************************************************************)
(* Outcomes of a call                                                      *)
(***************************************************************************)
Returned == [kind |-> "returned", cause |-> "", status |-> 0]
Threw(cause) == [kind |-> "threw", cause |-> cause, status |-> 0]
Response(status, cause) == [kind |-> "response", cause |-> cause, status |-> status]

Doc(file, content) ==
  [id |-> file.id, name |-> file.name, content |-> content,
   url |-> file.webViewLink, lastModified |-> file.modifiedTime]

\* a call that rejects a query without terms instead of returning []
ProceedRejecting(t) ==
  IF op = "searchDocuments" /\ variant = "rich" /\ CleanTerms(query) = <<>>
  THEN [pc |-> "done", result |-> Threw("no_terms")]
  ELSE [pc |-> "list", result |-> NoResult]

\* what follows once the access token of the call is settled: the rich
\* searchDocuments returns [] when no term is left (part_002 lines 710-712),
\* getAllDocuments evaluates accessToken.trim() for the listing headers
Proceed(t) ==
  IF op = "searchDocuments" /\ variant = "rich" /\ CleanTerms(query) = <<>>
  THEN [pc |-> "done", result |-> Returned]
  ELSE IF op = "getAllDocuments" /\ t = Undefined
  THEN [pc |-> "done", result |-> Threw("token_undefined")]
  ELSE [pc |-> "list", result |-> NoResult]

(***************************************************************************)
(* searchDocuments / getAllDocuments / GET: credential and refresh         *)
(***************************************************************************)
\* a caller invokes searchDocuments(userId, q) or getAllDocuments(userId)
Start(o, v, q) ==
  /\ pc = "idle" /\ caller = "agg"
  /\ op' = o /\ variant' = v /\ query' = q
  /\ expiredAtStart' = (store.exists /\ store.expiresAt < now)
  /\ pc' = "find"
  /\ UNCHANGED <<envVars, startStore, aggVars, fetchVars, otherVars, result, hist, log>>

\* the docs search route up to its token lookup (part_005 lines 17-59)
RouteStart(q, who) ==
  /\ pc = "idle" /\ caller = "agg"
  /\ op' = "GET" /\ variant' = "route" /\ query' = q
  /\ expiredAtStart' = (store.exists /\ store.expiresAt < now)
  /\ IF q = "" THEN pc' = "done" /\ result' = Response(400, "no_query")
     ELSE IF who = "noSession" THEN pc' = "done" /\ result' = Response(401, "no_session")
     ELSE IF who = "noUser" THEN pc' = "done" /\ result' = Response(404, "no_user")
     ELSE IF who = "noConnection" THEN pc' = "done" /\ result' = Response(401, "not_connected")
     ELSE pc' = "find" /\ result' = result
  /\ UNCHANGED <<envVars, startStore, aggVars, fetchVars, otherVars, hist, log>>

\* a caller that goes on to the listing with the stored token after a failed refresh
OnRefreshFailureGoOn(o) == [pc |-> "list", result |-> Threw("refresh_failed")]

\* refreshToken() throws: the aggregators let the error escape (or rethrow
\* it), the route answers 401
OnRefreshFailure(o) ==
  [pc |-> "done",
   result |-> IF o = "GET" THEN Response(401, "refresh_failed") ELSE Threw("refresh_failed")]

\* db.token.findUnique / findFirst and the expiry check that follows it
FindToken ==
  /\ pc = "find"
  /\ IF ~Connected(store)
     THEN /\ pc' = "done"
          /\ result' = IF op = "GET" THEN Response(401, "not_connected")
                       ELSE Threw("not_connected")
          /\ tok' = tok
     ELSE /\ tok' = store.accessToken
          /\ IF TokenExpired(now, store.expiresAt)
             THEN IF op = "GET" /\ store.refreshToken = Undefined
                  THEN /\ pc' = OnRefreshFailure(op).pc
                       /\ result' = OnRefreshFailure(op).result
                  ELSE pc' = "refresh" /\ result' = result
             ELSE /\ pc' = Proceed(store.accessToken).pc
                  /\ result' = Proceed(store.accessToken).result
  /\ UNCHANGED <<envVars, callVars, refreshed, files, idx, documents, retryCount,
                 fetchVars, otherVars, hist, log>>

\* refreshToken(): the OAuth endpoint answers non-2xx, or the request fails
RefreshFails ==
  /\ pc = "refresh"
  /\ hist' = [hist EXCEPT !.refresh = @ + 1]
  /\ pc' = OnRefreshFailure(op).pc
  /\ result' = OnRefreshFailure(op).result
  /\ UNCHANGED <<envVars, callVars, aggVars, fetchVars, otherVars, log>>

\* refreshToken(): a 2xx answer; only the route's refreshToken checks the body
RefreshOk(body) ==
  /\ pc = "refresh"
  /\ hist' = [hist EXCEPT !.refresh = @ + 1]
  /\ IF op = "GET" /\ body.access_token = Undefined
     THEN /\ pc' = OnRefreshFailure(op).pc
          /\ result' = OnRefreshFailure(op).result
          /\ UNCHANGED <<tok, refreshed>>
     ELSE /\ pc' = "update"
          /\ result' = result
          /\ refreshed' = body
          /\ tok' = IF op = "searchDocuments" THEN tok ELSE body.access_token
  /\ UNCHANGED <<envVars, callVars, files, idx, documents, retryCount, fetchVars, otherVars, log>>

\* a write that also drops the refresh token
StoreAfterUpdateClearing(cred, body, t) ==
  [cred EXCEPT !.accessToken = body.access_token,
               !.refreshToken = Undefined,
               !.expiresAt = t + body.expires_in * 1000]

\* the write db.token.update performs
StoreAfterUpdate(cred, body, t) ==
  [cred EXCEPT !.accessToken = body.access_token,
               !.expiresAt = t + body.expires_in * 1000]

\* db.token.update succeeds
UpdateStore ==
  /\ pc = "update"
  /\ store' = StoreAfterUpdate(store, refreshed, now)
  /\ hist' = [hist EXCEPT !.write = @ + 1]
  /\ tok' = refreshed.access_token
  /\ pc' = Proceed(refreshed.access_token).pc
  /\ result' = Proceed(refreshed.access_token).result
  /\ UNCHANGED <<now, cache, budget, callVars, refreshed, files, idx, documents,
                 retryCount, fetchVars, otherVars, log>>

\* db.token.update throws
UpdateStoreFails ==
  /\ pc = "update"
  /\ pc' = "done"
  /\ result' = IF op = "GET" THEN Response(401, "store_write_failed")
               ELSE Threw("store_write_failed")
  /\ UNCHANGED <<envVars, callVars, aggVars, fetchVars, otherVars, hist, log>>

(***************************************************************************)
(* The listing call                                                        *)
(***************************************************************************)
\* statuses of a non-2xx listing answer
ListStatuses == {401, 500}

\* a listing loop that repeats a failed attempt without counting
RouteRetryUnbounded(cause) ==
  /\ retryCount' = retryCount
  /\ pc' = "list"
  /\ result' = result

\* the route's loop after a failed attempt that may be repeated
\* (part_005 lines 152-170): retry while retryCount < MAX_RETRIES
RouteRetryOrGiveUp(cause) ==
  IF retryCount < ROUTE_MAX_RETRIES
  THEN /\ retryCount' = retryCount + 1
       /\ pc' = "list"
       /\ result' = result
  ELSE /\ retryCount' = retryCount
       /\ pc' = "done"
       /\ result' = Response(401, cause)

\* the route repeats a listing attempt answered non-2xx when the status is 401
\* and retries remain, or when reading the error body throws
RouteRetriesStatus(status, jsonBody) == status = 401 \/ ~jsonBody

\* the listing answers non-2xx; jsonBody: the error body parses as JSON
ListFails(status, jsonBody) ==
  /\ pc = "list"
  /\ hist' = [Sent(hist, "list", tok) EXCEPT !.listFailed = @ + 1]
  /\ IF op = "GET"
     THEN IF RouteRetriesStatus(status, jsonBody)
          THEN RouteRetryOrGiveUp("listing_status")
          ELSE /\ pc' = "done"
               /\ result' = Response(401, "listing_status")
               /\ retryCount' = retryCount
     ELSE /\ pc' = "done"
          /\ result' = Threw("listing_status")
          /\ retryCount' = retryCount
  /\ UNCHANGED <<envVars, callVars, tok, refreshed, files, idx, documents, fetchVars, otherVars, log>>

\* fetch() of the listing rejects (no answer)
ListNetworkError ==
  /\ pc = "list"
  /\ hist' = Sent(hist, "list", tok)
  /\ IF op = "GET"
     THEN RouteRetryOrGiveUp("listing_network")
     ELSE /\ pc' = "done"
          /\ result' = Threw("listing_network")
          /\ retryCount' = retryCount
  /\ UNCHANGED <<envVars, callVars, tok, refreshed, files, idx, documents, fetchVars, otherVars, log>>

\* a 2xx listing answer whose body has no files array
ListMalformed ==
  /\ pc = "list"
  /\ hist' = Sent(hist, "list", tok)
  /\ IF op = "GET"
     THEN RouteRetryOrGiveUp("listing_body")
     ELSE /\ pc' = "done"
          /\ result' = Threw("listing_body")
          /\ retryCount' = retryCount
  /\ UNCHANGED <<envVars, callVars, tok, refreshed, files, idx, documents, fetchVars, otherVars, log>>

\* a 2xx listing answer with data.files = fs
ListOk(fs) ==
  /\ pc = "list"
  /\ hist' = Sent(hist, "list", tok)
  /\ files' = fs
  /\ IF op = "GET"
     THEN /\ documents' = [i \in 1..Len(fs) |-> Doc(fs[i], Undefined)]
          /\ idx' = idx
          /\ pc' = "done"
          /\ result' = Response(200, "")
     ELSE /\ documents' = <<>>
          /\ idx' = 1
          /\ pc' = "loop"
          /\ result' = result
  /\ UNCHANGED <<envVars, callVars, tok, refreshed, retryCount, fetchVars, otherVars, log>>

(***************************************************************************)
(* The loop over data.files and fetchDocumentContent                       *)
(***************************************************************************)
\* the record of a completed direct call; h, c: the history and cache it leaves
LogEntry(h, c, content, threw) ==
  [id |-> fid, content |-> content, threw |-> threw,
   start |-> fstart.at, end |-> now, before |-> fstart.entry, after |-> c[fid],
   meta |-> h.meta, throttled |-> h.throttled, retries |-> retries]

\* a loop that puts each new Document in front of the earlier ones
FetchReturnPrepending(h, c, content) ==
  /\ hist' = h
  /\ cache' = c
  /\ retries' = 0
  /\ mimeType' = ""
  /\ IF caller = "agg"
     THEN /\ documents' = <<Doc(files[idx], content)>> \o documents
          /\ idx' = idx + 1
          /\ pc' = "loop"
          /\ log' = log
     ELSE /\ UNCHANGED <<documents, idx>>
          /\ pc' = "idle"
          /\ log' = Append(log, LogEntry(h, c, content, FALSE))

\* fetchDocumentContent returns content to whoever awaits it
FetchReturn(h, c, content) ==
  /\ hist' = h
  /\ cache' = c
  /\ retries' = 0
  /\ mimeType' = ""
  /\ IF caller = "agg"
     THEN /\ documents' = Append(documents, Doc(files[idx], content))
          /\ idx' = idx + 1
          /\ pc' = "loop"
          /\ log' = log
     ELSE /\ UNCHANGED <<documents, idx>>
          /\ pc' = "idle"
          /\ log' = Append(log, LogEntry(h, c, content, FALSE))

\* fetchDocumentContent throws; the aggregator's catch logs and goes on
FetchThrow(h) ==
  /\ hist' = h
  /\ cache' = cache
  /\ retries' = 0
  /\ mimeType' = ""
  /\ UNCHANGED documents
  /\ IF caller = "agg"
     THEN idx' = idx + 1 /\ pc' = "loop" /\ log' = log
     ELSE idx' = idx /\ pc' = "idle" /\ log' = Append(log, LogEntry(h, cache, "", TRUE))

\* the head of the for loop: return documents, or call fetchDocumentContent
Loop ==
  /\ pc = "loop"
  /\ IF idx > Len(files)
     THEN /\ pc' = "done"
          /\ result' = Returned
          /\ UNCHANGED <<fid, ftok>>
     ELSE /\ fid' = files[idx].id
          /\ ftok' = tok
          /\ pc' = IF variant = "rich" THEN "f_enter" ELSE "l_enter"
          /\ result' = result
  /\ UNCHANGED <<envVars, callVars, aggVars, caller, otherVars, mimeType, retries, fetches, fstart,
                 hist, log>>

\* a cache that never serves an entry, and one that serves entries of any age
CacheNeverFresh(entry, t) == FALSE
CacheAlwaysFresh(entry, t) == entry # NoEntry

\* a cache that still serves an entry aged exactly CACHE_TTL
CacheFreshInclusive(entry, t) == entry # NoEntry /\ t - entry.timestamp <= CACHE_TTL

\* a cache entry that may be served at time t
CacheFresh(entry, t) == entry # NoEntry /\ t - entry.timestamp < CACHE_TTL

\* part_002 lines 783-795: cache lookup, then the access token check
FetchEnter ==
  /\ pc = "f_enter"
  /\ IF CacheFresh(cache[fid], now)
     THEN FetchReturn(hist, cache, cache[fid].content)
     ELSE IF BlankToken(ftok)
     THEN FetchThrow(hist)
     ELSE /\ pc' = "f_meta"
          /\ UNCHANGED <<cache, documents, idx, retries, mimeType, hist, log>>
  /\ UNCHANGED <<now, store, budget, callVars, tok, refreshed, files, retryCount,
                 caller, otherVars, fid, ftok, fetches, fstart, result>>

\* a catch that lets the loop move to the next file while the retry is pending
OuterCatchMovingOn(h, err) ==
  IF Retryable(err)
  THEN /\ pc' = "f_wait"
       /\ hist' = h
       /\ mimeType' = ""
       /\ idx' = idx + 1
       /\ UNCHANGED <<cache, documents, retries, log>>
  ELSE FetchReturn(h, cache, ErrorPlaceholder(err))

\* the outer catch of fetchDocumentContent (part_002 lines 933-950)
OuterCatch(h, err) ==
  IF Retryable(err)
  THEN /\ pc' = "f_wait"
       /\ hist' = h
       /\ mimeType' = ""
       /\ UNCHANGED <<cache, documents, idx, retries, log>>
  ELSE FetchReturn(h, cache, ErrorPlaceholder(err))

\* drive.files.get (metadata) fails
MetaFails(err) ==
  /\ pc = "f_meta"
  /\ Retryable(err) => budget > 0
  /\ budget' = IF Retryable(err) THEN budget - 1 ELSE budget
  /\ OuterCatch(Answered(Sent(hist, "meta", ftok), err), err)
  /\ UNCHANGED <<now, store, callVars, tok, refreshed, files, retryCount,
                 caller, otherVars, fid, ftok, fetches, fstart, result>>

\* drive.files.get (metadata) answers with the MIME type m
MetaOk(m) ==
  /\ pc = "f_meta"
  /\ IF DocTypeOf(m) = Undefined
     THEN FetchReturn(Sent(hist, "meta", ftok), cache, UnsupportedPlaceholder(m))
     ELSE /\ mimeType' = m
          /\ pc' = "f_content"
          /\ hist' = Sent(hist, "meta", ftok)
          /\ UNCHANGED <<cache, documents, idx, retries, log>>
  /\ UNCHANGED <<now, store, budget, callVars, tok, refreshed, files, retryCount,
                 caller, otherVars, fid, ftok, fetches, fstart, result>>

\* part_002 lines 922-928: only non-empty content is cached
CacheAfter(c, id, content, t) ==
  IF content # "" THEN [c EXCEPT ![id] = [content |-> content, timestamp |-> t]] ELSE c

\* part_002 lines 922-931: cache the content, return it or the placeholder
Complete(h, content) ==
  FetchReturn(h, CacheAfter(cache, fid, content, now),
              IF content # "" THEN content ELSE NoContentPlaceholder(FileName(fid)))

\* the inner try/catch of the pdf and binary cases swallows every error
InnerCatch(docType) == docType \in {"pdf", "binary"}

InnerPlaceholder(docType, name) ==
  IF docType = "pdf" THEN PdfErrorPlaceholder ELSE BinaryErrorPlaceholder(name)

\* the type-specific get / download / export fails
ContentFails(err) ==
  /\ pc = "f_content"
  /\ Retryable(err) => budget > 0
  /\ budget' = IF Retryable(err) THEN budget - 1 ELSE budget
  /\ IF InnerCatch(DocTypeOf(mimeType))
     THEN Complete(Answered(Carried(hist, ftok), err),
                   InnerPlaceholder(DocTypeOf(mimeType), FileName(fid)))
     ELSE OuterCatch(Answered(Carried(hist, ftok), err), err)
  /\ UNCHANGED <<now, store, callVars, tok, refreshed, files, retryCount,
                 caller, otherVars, fid, ftok, fetches, fstart, result>>

\* the content of a binary download (part_002 lines 895-908)
BinaryContent(m, name, text) ==
  IF Includes(m, "word")
  THEN (IF text # "" THEN text ELSE WordEmptyPlaceholder)
  ELSE IF Includes(m, "spreadsheet") \/ Includes(m, "excel")
  THEN ExcelPlaceholder(name)
  ELSE BinaryPlaceholder(name)

\* the content extracted from a successful answer holding text
Extracted(m, name, text) ==
  IF DocTypeOf(m) = "binary" THEN BinaryContent(m, name, text) ELSE text

\* the type-specific call succeeds and the extraction yields text
ContentOk(text) ==
  /\ pc = "f_content"
  /\ Complete(Carried(hist, ftok), Extracted(mimeType, FileName(fid), text))
  /\ UNCHANGED <<now, store, budget, callVars, tok, refreshed, files, retryCount,
                 caller, otherVars, fid, ftok, fetches, fstart, result>>

\* the download succeeds but extractTextFromPDF / extractTextFromWord throws
ExtractFails ==
  /\ pc = "f_content"
  /\ \/ DocTypeOf(mimeType) = "pdf"
     \/ DocTypeOf(mimeType) = "binary" /\ Includes(mimeType, "word")
  /\ Complete(Carried(hist, ftok),
              InnerPlaceholder(DocTypeOf(mimeType), FileName(fid)))
  /\ UNCHANGED <<now, store, budget, callVars, tok, refreshed, files, retryCount,
                 caller, otherVars, fid, ftok, fetches, fstart, result>>

\* part_002 lines 944-945: sleep RETRY_DELAY, then call fetchDocumentContent again
RetryWait ==
  /\ pc = "f_wait"
  /\ now' = now + RETRY_DELAY
  /\ retries' = retries + 1
  /\ pc' = "f_enter"
  /\ UNCHANGED <<store, cache, budget, callVars, aggVars,
                 caller, otherVars, fid, ftok, mimeType, fetches, fstart, result, hist, log>>

(***************************************************************************)
(* fetchDocumentContent of src/lib/document-service.ts (lines 93-163)      *)
(***************************************************************************)
LibEnter ==
  /\ pc = "l_enter"
  /\ IF BlankToken(ftok)
     THEN FetchThrow(hist)
     ELSE /\ pc' = "l_get"
          /\ UNCHANGED <<cache, documents, idx, retries, mimeType, hist, log>>
  /\ UNCHANGED <<now, store, budget, callVars, tok, refreshed, files, retryCount,
                 caller, otherVars, fid, ftok, fetches, fstart, result>>

\* what makes the Docs API call throw: the request fails, an HTML answer,
\* 401, 403, or another non-2xx status
LibFailures == {"network", "html", "401", "403", "429", "500"}

LibGetFails(why) ==
  /\ pc = "l_get"
  /\ FetchThrow(Sent(hist, "meta", ftok))
  /\ UNCHANGED <<now, store, budget, callVars, tok, refreshed, files, retryCount,
                 caller, otherVars, fid, ftok, fetches, fstart, result>>

\* a 2xx JSON answer; text: the concatenated text runs ("" also when the
\* body has no content)
LibGetOk(text) ==
  /\ pc = "l_get"
  /\ FetchReturn(Sent(hist, "meta", ftok), cache, text)
  /\ UNCHANGED <<now, store, budget, callVars, tok, refreshed, files, retryCount,
                 caller, otherVars, fid, ftok, fetches, fstart, result>>

(***************************************************************************)
(* Direct calls of fetchDocumentContent and the clock                      *)
(***************************************************************************)
\* how long after the previous call has completed the next one is made
Delays == {CACHE_TTL - 1, CACHE_TTL}

\* fetchDocumentContent(id, StoredToken) is called d milliseconds later
FetchCall(id, d) ==
  /\ pc = "idle" /\ caller = "direct"
  /\ fetches < MaxFetches
  /\ fetches' = fetches + 1
  /\ now' = now + d
  /\ fid' = id /\ ftok' = StoredToken
  /\ fstart' = [at |-> now + d, entry |-> cache[id]]
  /\ hist' = NoHist
  /\ pc' = "f_enter"
  /\ UNCHANGED <<store, cache, budget, callVars, aggVars, caller, otherVars, mimeType, retries,
                 result, log>>

(***************************************************************************)
(* Specifications                                                          *)
(***************************************************************************)
\* the text of a listed file: none, or some
ListedTexts == {"", "x"}

\* one request: an aggregation call of either variant, or the docs search route
Next ==
  \/ \E o \in AggOps, v \in {"lib", "rich"}, q \in Queries :
       (o = "getAllDocuments" => q = "") /\ Start(o, v, q)
  \/ \E q \in Queries, who \in {"ok", "noSession", "noUser", "noConnection"} : RouteStart(q, who)
  \/ FindToken
  \/ RefreshFails
  \/ \E body \in RefreshBodies : RefreshOk(body)
  \/ UpdateStore
  \/ UpdateStoreFails
  \/ \E st \in ListStatuses, j \in BOOLEAN : ListFails(st, j)
  \/ ListNetworkError
  \/ ListMalformed
  \/ \E fs \in Listings : ListOk(fs)
  \/ Loop
  \/ FetchEnter
  \/ \E err \in ApiErrors : MetaFails(err)
  \/ \E m \in MimeTypes : MetaOk(m)
  \/ \E err \in ApiErrors : ContentFails(err)
  \/ \E text \in ListedTexts : ContentOk(text)
  \/ ExtractFails
  \/ RetryWait
  \/ LibEnter
  \/ \E why \in LibFailures : LibGetFails(why)
  \/ \E text \in ListedTexts : LibGetOk(text)

Spec == Init /\ [][Next]_vars

\* a sequence of fetchDocumentContent calls in one process, time passing
\* between them
FetchInit ==
  /\ InitCommon
  /\ store = NoCred
  /\ startStore = NoCred
  /\ caller = "direct"
  /\ budget = MaxThrottles

FetchNext ==
  \/ \E d \in Delays : FetchCall("f1", d)
  \/ FetchEnter
  \/ \E err \in ApiErrors : MetaFails(err)
  \/ \E m \in MimeTypes : MetaOk(m)
  \/ \E err \in ApiErrors : ContentFails(err)
  \/ \E text \in Texts : ContentOk(text)
  \/ ExtractFails
  \/ RetryWait

FetchSpec == FetchInit /\ [][FetchNext]_vars

\* one fetchDocumentContent("f1", StoredToken) call on an empty cache, the
\* provider answering 429 / 503 up to MaxRetriesSeen times
RetryInit ==
  /\ OthersIdle
  /\ now = 1
  /\ cache = [id \in FileIds |-> NoEntry]
  /\ store = NoCred /\ startStore = NoCred
  /\ budget = MaxRetriesSeen
  /\ pc = "f_enter"
  /\ op = "" /\ variant = "" /\ query = ""
  /\ expiredAtStart = FALSE
  /\ tok = Undefined /\ refreshed = NoBody
  /\ files = <<>> /\ idx = 0 /\ documents = <<>> /\ retryCount = 0
  /\ result = NoResult
  /\ caller = "direct"
  /\ fid = "f1" /\ ftok = StoredToken /\ mimeType = ""
  /\ retries = 0
  /\ fetches = MaxFetches
  /\ fstart = [at |-> 1, entry |-> NoEntry]
  /\ hist = NoHist
  /\ log = <<>>

RetryNext ==
  \/ FetchEnter
  \/ \E err \in ApiErrors : MetaFails(err)
  \/ \E m \in MimeTypes : MetaOk(m)
  \/ \E err \in ApiErrors : ContentFails(err)
  \/ \E text \in Texts : ContentOk(text)
  \/ ExtractFails
  \/ RetryWait

RetrySpec == RetryInit /\ [][RetryNext]_vars

(***************************************************************************)
(* parseText (src/lib/utils/pdf-utils.ts lines 49-63)                      *)
(***************************************************************************)
\* items of a page's text content: text runs with their str and
\* transform[5], and an item without str (marked content)
PdfItems ==
  {[str |-> c, y |-> v] : c \in {"a", "b"}, v \in {0, 5}} \cup {[str |-> Undefined, y |-> 0]}

\* 'str' in item
HasStr(item) == item.str # Undefined

\* !lastY
Falsy(v) == v = NoY \/ v = 0

\* lastY == item.transform[5] || !lastY
SameLine(last, item) == last = item.y \/ Falsy(last)

\* text.join('')
RECURSIVE Join(_)
Join(ts) == IF ts = <<>> THEN "" ELSE Head(ts) \o Join(Tail(ts))

\* no aggregation call and no fetch of the sequential service is running
ServiceIdle(who) ==
  /\ now = 1
  /\ cache = [id \in FileIds |-> NoEntry]
  /\ store = NoCred /\ startStore = NoCred
  /\ pc = "idle"
  /\ op = "" /\ variant = "" /\ query = ""
  /\ expiredAtStart = FALSE
  /\ tok = Undefined /\ refreshed = NoBody
  /\ files = <<>> /\ idx = 0 /\ documents = <<>> /\ retryCount = 0
  /\ result = NoResult
  /\ caller = who
  /\ fid = "" /\ ftok = Undefined /\ mimeType = ""
  /\ retries = 0 /\ fetches = 0
  /\ fstart = [at |-> 0, entry |-> NoEntry]
  /\ hist = NoHist
  /\ log = <<>>

ParseInit ==
  /\ items \in SeqsUpTo(PdfItems, MaxRuns)
  /\ pos = 1 /\ lastY = NoY /\ pushed = <<>> /\ joined = Undefined
  /\ reqs = <<>> /\ writes = <<>> /\ remote = NoRemote
  /\ calls = <<>> /\ issued = 0
  /\ http = NoHttp /\ chat = NoChat /\ oauth = NoOAuth
  /\ budget = 0
  /\ ServiceIdle("parse")

\* one iteration of the loop over textContent.items
ParseItem ==
  /\ caller = "parse" /\ joined = Undefined
  /\ pos <= Len(items)
  /\ LET item == items[pos]
     IN IF HasStr(item)
        THEN /\ pushed' = Append(pushed, IF SameLine(lastY, item) THEN item.str ELSE "\n" \o item.str)
             /\ lastY' = item.y
        ELSE UNCHANGED <<pushed, lastY>>
  /\ pos' = pos + 1
  /\ UNCHANGED <<envVars, callVars, aggVars, fetchVars, pc, result, hist, log,
                 items, joined, raceVars, concVars, webVars>>

\* return text.join('')
ParseReturn ==
  /\ caller = "parse" /\ joined = Undefined
  /\ pos = Len(items) + 1
  /\ joined' = Join(pushed)
  /\ UNCHANGED <<envVars, callVars, aggVars, fetchVars, pc, result, hist, log,
                 items, pos, lastY, pushed, raceVars, concVars, webVars>>

ParseNext == ParseItem \/ ParseReturn

ParseSpec == ParseInit /\ [][ParseNext]_vars

(***************************************************************************)
(* Concurrent fetchDocumentContent calls for one file id, sharing          *)
(* documentCache (src/unnamed/part_002 lines 593-599 and 783-951)          *)
(***************************************************************************)
Racers == {"r1", "r2"}
RacedFile == "f1"

\* a request before its cache lookup
NewReq == [pc |-> "enter", mimeType |-> "", out |-> Undefined]

RaceInit ==
  /\ reqs = [r \in Racers |-> NewReq]
  /\ writes = <<>>
  /\ remote \in [mimeType : MimeTypes, text : Texts]
  /\ items = <<>> /\ pos = 0 /\ lastY = NoY /\ pushed = <<>> /\ joined = Undefined
  /\ calls = <<>> /\ issued = 0
  /\ http = NoHttp /\ chat = NoChat /\ oauth = NoOAuth
  /\ budget = MaxThrottles
  /\ ServiceIdle("race")

\* return content from request r
RaceReturn(r, content) ==
  reqs' = [reqs EXCEPT ![r] = [pc |-> "done", mimeType |-> "", out |-> content]]

\* part_002 lines 922-931 in request r: documentCache.set, then return
RaceComplete(r, content) ==
  /\ cache' = CacheAfter(cache, RacedFile, content, now)
  /\ writes' = IF content # ""
               THEN Append(writes, [req |-> r, content |-> content, at |-> now])
               ELSE writes
  /\ RaceReturn(r, IF content # "" THEN content ELSE NoContentPlaceholder(FileName(RacedFile)))

\* the outer catch in request r (part_002 lines 933-950)
RaceOuterCatch(r, err) ==
  /\ Retryable(err) => budget > 0
  /\ budget' = IF Retryable(err) THEN budget - 1 ELSE budget
  /\ IF Retryable(err)
     THEN reqs' = [reqs EXCEPT ![r] = [pc |-> "wait", mimeType |-> "", out |-> Undefined]]
     ELSE RaceReturn(r, ErrorPlaceholder(err))
  /\ UNCHANGED <<cache, writes>>

\* part_002 lines 783-788 in request r: the cache lookup
RaceEnter(r) ==
  /\ caller = "race" /\ reqs[r].pc = "enter"
  /\ IF CacheFresh(cache[RacedFile], now)
     THEN RaceReturn(r, cache[RacedFile].content)
     ELSE reqs' = [reqs EXCEPT ![r].pc = "meta"]
  /\ UNCHANGED <<envVars, callVars, aggVars, fetchVars, pc, result, hist, log,
                 parseVars, writes, remote, concVars, webVars>>

\* the metadata request of r is answered
RaceMetaOk(r) ==
  /\ caller = "race" /\ reqs[r].pc = "meta"
  /\ IF DocTypeOf(remote.mimeType) = Undefined
     THEN RaceReturn(r, UnsupportedPlaceholder(remote.mimeType))
     ELSE reqs' = [reqs EXCEPT ![r] = [pc |-> "content", mimeType |-> remote.mimeType,
                                       out |-> Undefined]]
  /\ UNCHANGED <<envVars, callVars, aggVars, fetchVars, pc, result, hist, log,
                 parseVars, writes, remote, concVars, webVars>>

\* the metadata request of r fails
RaceMetaFails(r, err) ==
  /\ caller = "race" /\ reqs[r].pc = "meta"
  /\ RaceOuterCatch(r, err)
  /\ UNCHANGED <<now, store, callVars, aggVars, fetchVars, pc, result, hist, log,
                 parseVars, remote, concVars, webVars>>

\* the content request of r is answered and the extraction yields text
RaceContentOk(r) ==
  /\ caller = "race" /\ reqs[r].pc = "content"
  /\ RaceComplete(r, Extracted(reqs[r].mimeType, FileName(RacedFile), remote.text))
  /\ UNCHANGED <<now, store, budget, callVars, aggVars, fetchVars, pc, result, hist, log,
                 parseVars, remote, concVars, webVars>>

\* the content request of r fails
RaceContentFails(r, err) ==
  /\ caller = "race" /\ reqs[r].pc = "content"
  /\ IF InnerCatch(DocTypeOf(reqs[r].mimeType))
     THEN /\ RaceComplete(r, InnerPlaceholder(DocTypeOf(reqs[r].mimeType), FileName(RacedFile)))
          /\ Retryable(err) => budget > 0
          /\ budget' = IF Retryable(err) THEN budget - 1 ELSE budget
     ELSE RaceOuterCatch(r, err)
  /\ UNCHANGED <<now, store, callVars, aggVars, fetchVars, pc, result, hist, log,
                 parseVars, remote, concVars, webVars>>

\* the download of r succeeds but the text extraction throws
RaceExtractFails(r) ==
  /\ caller = "race" /\ reqs[r].pc = "content"
  /\ \/ DocTypeOf(reqs[r].mimeType) = "pdf"
     \/ DocTypeOf(reqs[r].mimeType) = "binary" /\ Includes(reqs[r].mimeType, "word")
  /\ RaceComplete(r, InnerPlaceholder(DocTypeOf(reqs[r].mimeType), FileName(RacedFile)))
  /\ UNCHANGED <<now, store, budget, callVars, aggVars, fetchVars, pc, result, hist, log,
                 parseVars, remote, concVars, webVars>>

\* request r sleeps RETRY_DELAY and calls fetchDocumentContent again
RaceRetry(r) ==
  /\ caller = "race" /\ reqs[r].pc = "wait"
  /\ now' = now + RETRY_DELAY
  /\ reqs' = [reqs EXCEPT ![r].pc = "enter"]
  /\ UNCHANGED <<store, cache, budget, callVars, aggVars, fetchVars, pc, result, hist, log,
                 parseVars, writes, remote, concVars, webVars>>

RaceNext ==
  \E r \in Racers :
    \/ RaceEnter(r)
    \/ RaceMetaOk(r)
    \/ \E err \in ApiErrors : RaceMetaFails(r, err)
    \/ RaceContentOk(r)
    \/ \E err \in ApiErrors : RaceContentFails(r, err)
    \/ RaceExtractFails(r)
    \/ RaceRetry(r)

RaceSpec == RaceInit /\ [][RaceNext]_vars

(***************************************************************************)
(* Concurrent aggregation calls on one Credential                          *)
(* (src/lib/document-service.ts lines 19-63 and 187-232)                   *)
(***************************************************************************)
Callers == {"c1", "c2"}

\* the n-th access token the OAuth endpoint issues
IssuedToken(n) == "at" \o ToString(n)

\* a call before db.token.findUnique; sent holds every remote request it has
\* made: the access token it carried and the one stored at that moment
NewCall(o) ==
  [op |-> o, pc |-> "find", tok |-> Undefined, body |-> NoBody, left |-> 0, sent |-> {}]

ConcInit ==
  /\ calls \in {[c \in Callers |-> NewCall(f[c])] : f \in [Callers -> AggOps]}
  /\ issued = 0
  /\ http = NoHttp /\ chat = NoChat /\ oauth = NoOAuth
  /\ store \in {Cred("rt0", 0), Cred("rt0", 1)}
  /\ startStore = store
  /\ items = <<>> /\ pos = 0 /\ lastY = NoY /\ pushed = <<>> /\ joined = Undefined
  /\ reqs = <<>> /\ writes = <<>> /\ remote = NoRemote
  /\ budget = 0
  /\ now = 1
  /\ cache = [id \in FileIds |-> NoEntry]
  /\ pc = "idle"
  /\ op = "" /\ variant = "" /\ query = ""
  /\ expiredAtStart = FALSE
  /\ tok = Undefined /\ refreshed = NoBody
  /\ files = <<>> /\ idx = 0 /\ documents = <<>> /\ retryCount = 0
  /\ result = NoResult
  /\ caller = "conc"
  /\ fid = "" /\ ftok = Undefined /\ mimeType = ""
  /\ retries = 0 /\ fetches = 0
  /\ fstart = [at |-> 0, entry |-> NoEntry]
  /\ hist = NoHist
  /\ log = <<>>

\* a remote request of call c carrying token t
Request(c, t) == calls[c].sent \cup {[carried |-> t, stored |-> store.accessToken]}

\* db.token.findUnique, then the expiry test (lines 19-33 and 188-202)
ConcFind(c) ==
  /\ caller = "conc" /\ calls[c].pc = "find"
  /\ calls' = [calls EXCEPT ![c].tok = store.accessToken,
                            ![c].pc = IF TokenExpired(now, store.expiresAt)
                                      THEN "refresh" ELSE "list"]
  /\ UNCHANGED <<envVars, callVars, aggVars, fetchVars, pc, result, hist, log,
                 parseVars, raceVars, issued, webVars>>

\* refreshToken answers with a newly issued access token (lines 165-184)
ConcRefreshOk(c) ==
  /\ caller = "conc" /\ calls[c].pc = "refresh"
  /\ issued' = issued + 1
  /\ calls' = [calls EXCEPT ![c].body = [access_token |-> IssuedToken(issued + 1),
                                         expires_in |-> ExpiresIn],
                            ![c].pc = "update"]
  /\ UNCHANGED <<envVars, callVars, aggVars, fetchVars, pc, result, hist, log,
                 parseVars, raceVars, webVars>>

\* refreshToken throws: the call ends
ConcRefreshFails(c) ==
  /\ caller = "conc" /\ calls[c].pc = "refresh"
  /\ calls' = [calls EXCEPT ![c].pc = "done"]
  /\ UNCHANGED <<envVars, callVars, aggVars, fetchVars, pc, result, hist, log,
                 parseVars, raceVars, issued, webVars>>

\* db.token.update commits, then token.accessToken = refreshedToken.access_token
ConcUpdate(c) ==
  /\ caller = "conc" /\ calls[c].pc = "update"
  /\ store' = StoreAfterUpdate(store, calls[c].body, now)
  /\ calls' = [calls EXCEPT ![c].tok = calls[c].body.access_token, ![c].pc = "list"]
  /\ UNCHANGED <<now, cache, budget, callVars, aggVars, fetchVars, pc, result, hist, log,
                 parseVars, raceVars, issued, webVars>>

\* db.token.update throws: the call ends, the store keeps its Credential
ConcUpdateFails(c) ==
  /\ caller = "conc" /\ calls[c].pc = "update"
  /\ calls' = [calls EXCEPT ![c].pc = "done"]
  /\ UNCHANGED <<envVars, callVars, aggVars, fetchVars, pc, result, hist, log,
                 parseVars, raceVars, issued, webVars>>

\* the listing request is sent and answered with n files; searchDocuments
\* returns them, getAllDocuments goes on to fetch each one's content
ConcList(c, n) ==
  /\ caller = "conc" /\ calls[c].pc = "list"
  /\ calls' = [calls EXCEPT ![c].sent = Request(c, calls[c].tok),
                            ![c].left = IF calls[c].op = "getAllDocuments" THEN n ELSE 0,
                            ![c].pc = IF calls[c].op = "getAllDocuments" /\ n > 0
                                      THEN "fetch" ELSE "done"]
  /\ UNCHANGED <<envVars, callVars, aggVars, fetchVars, pc, result, hist, log,
                 parseVars, raceVars, issued, webVars>>

\* the listing request is sent and fails: the call throws
ConcListFails(c) ==
  /\ caller = "conc" /\ calls[c].pc = "list"
  /\ calls' = [calls EXCEPT ![c].sent = Request(c, calls[c].tok), ![c].pc = "done"]
  /\ UNCHANGED <<envVars, callVars, aggVars, fetchVars, pc, result, hist, log,
                 parseVars, raceVars, issued, webVars>>

\* fetchDocumentContent(file.id, token.accessToken) for the next listed file
ConcFetch(c) ==
  /\ caller = "conc" /\ calls[c].pc = "fetch"
  /\ calls' = [calls EXCEPT ![c].sent = Request(c, calls[c].tok),
                            ![c].left = calls[c].left - 1,
                            ![c].pc = IF calls[c].left > 1 THEN "fetch" ELSE "done"]
  /\ UNCHANGED <<envVars, callVars, aggVars, fetchVars, pc, result, hist, log,
                 parseVars, raceVars, issued, webVars>>

ConcNext ==
  \E c \in Callers :
    \/ ConcFind(c)
    \/ ConcRefreshOk(c)
    \/ ConcRefreshFails(c)
    \/ ConcUpdate(c)
    \/ ConcUpdateFails(c)
    \/ \E n \in 0..MaxFiles : ConcList(c, n)
    \/ ConcListFails(c)
    \/ ConcFetch(c)

ConcSpec == ConcInit /\ [][ConcNext]_vars

(***************************************************************************)
(* The HTTP routes built on the aggregators of src/lib/document-service.ts *)
(* (src/app/api/documents/route.ts, src/app/api/chat/route.ts) and the     *)
(* docs search route (src/unnamed/part_005)                                *)
(***************************************************************************)
LibRoutes == {"documents", "chat"}

\* GET /api/documents up to its session check (documents/route.ts lines 7-10)
DocumentsGet(session) ==
  /\ pc = "idle" /\ caller = "agg" /\ http = NoHttp
  /\ http' = [route |-> "documents", status |-> IF session THEN 0 ELSE 401]
  /\ UNCHANGED <<envVars, callVars, aggVars, fetchVars, pc, result, hist, log,
                 parseVars, raceVars, concVars, chat, oauth>>

\* POST /api/chat up to the parsing of its body (chat/route.ts lines 29-59)
ChatPost(who) ==
  /\ pc = "idle" /\ caller = "agg" /\ http = NoHttp
  /\ http' = [route |-> "chat",
              status |-> CASE who = "noSession" -> 401
                           [] who = "noUser" -> 404
                           [] who = "noConnection" -> 403
                           [] who = "badBody" -> 400
                           [] OTHER -> 0]
  /\ UNCHANGED <<envVars, callVars, aggVars, fetchVars, pc, result, hist, log,
                 parseVars, raceVars, concVars, chat, oauth>>

\* the route calls searchDocuments(user.id, q) or getAllDocuments(user.id)
\* (documents/route.ts lines 15-17, chat/route.ts lines 63-68)
HttpCall(o, q) ==
  /\ http.route \in LibRoutes /\ http.status = 0
  /\ http.route = "documents" => (o = "searchDocuments" <=> q # "")
  /\ Start(o, "lib", q)

\* the call returned or threw: the route answers (documents/route.ts lines
\* 19-25, chat/route.ts lines 94-119); llmOk: generateText did not throw
HttpAnswer(llmOk) ==
  /\ http.route \in LibRoutes /\ http.status = 0
  /\ pc = "done"
  /\ http' = [http EXCEPT !.status = IF result.kind = "threw" THEN 500
                                     ELSE IF http.route = "chat" /\ ~llmOk THEN 500
                                     ELSE 200]
  /\ UNCHANGED <<envVars, callVars, aggVars, fetchVars, pc, result, hist, log,
                 parseVars, raceVars, concVars, chat, oauth>>

HttpNext ==
  \/ \E session \in BOOLEAN : DocumentsGet(session)
  \/ \E who \in {"ok", "noSession", "noUser", "noConnection", "badBody"} : ChatPost(who)
  \/ \E o \in AggOps, q \in Queries : (o = "getAllDocuments" => q = "") /\ HttpCall(o, q)
  \/ \E llmOk \in BOOLEAN : HttpAnswer(llmOk)
  \/ \E q \in Queries, who \in {"ok", "noSession", "noUser", "noConnection"} :
       http = NoHttp /\ RouteStart(q, who)
  \/ FindToken
  \/ RefreshFails
  \/ \E body \in RefreshBodies : RefreshOk(body)
  \/ UpdateStore
  \/ UpdateStoreFails
  \/ \E st \in ListStatuses, j \in BOOLEAN : ListFails(st, j)
  \/ ListNetworkError
  \/ ListMalformed
  \/ \E fs \in Listings : ListOk(fs)
  \/ Loop
  \/ LibEnter
  \/ \E why \in LibFailures : LibGetFails(why)
  \/ \E text \in ListedTexts : LibGetOk(text)

HttpSpec == Init /\ [][HttpNext]_vars

(***************************************************************************)
(* The chat routes that search before answering: per message term          *)
(* (src/unnamed/part_008) and with extracted terms (src/unnamed/part_009)  *)
(***************************************************************************)
\* String.prototype.split(c) for a one-character separator c
RECURSIVE Split(_, _)
Split(s, c) ==
  IF ~Includes(s, c) THEN <<s>>
  ELSE LET i == CHOOSE k \in 1..Len(s) :
                  /\ SubSeq(s, k, k) = c
                  /\ \A j \in 1..(k - 1) : SubSeq(s, j, j) # c
       IN <<SubSeq(s, 1, i - 1)>> \o Split(SubSeq(s, i + 1, Len(s)), c)

\* Array.prototype.filter(term => term.length >= n)
RECURSIVE LongTerms(_, _)
LongTerms(ts, n) ==
  IF ts = <<>> THEN <<>>
  ELSE IF Len(Head(ts)) >= n THEN <<Head(ts)>> \o LongTerms(Tail(ts), n)
  ELSE LongTerms(Tail(ts), n)

\* part_009 lines 62-65: split(','), trim, filter, slice; content may be null
ExtractSearchTerms(content) ==
  IF content = Undefined THEN <<>>
  ELSE LET parts == Split(content, ",")
           kept == LongTerms([i \in 1..Len(parts) |-> Trim(parts[i])], MIN_TERM_LENGTH)
       IN SubSeq(kept, 1, Min(Len(kept), MAX_SEARCH_TERMS))

\* part_008 line 68: message.split(" ").filter(term => term.length > 2)
MessageTerms(message) == LongTerms(Split(message, " "), 3)

\* documentMap.has(id)
HasId(map, id) == \E k \in 1..Len(map) : map[k].id = id

\* a forEach that puts every found document into the context
AddEvery(map, docs) == map \o docs

\* part_009 lines 117-121: the forEach over foundDocuments; the Map keeps
\* insertion order
RECURSIVE AddToDocumentMap(_, _)
AddToDocumentMap(map, docs) ==
  IF docs = <<>> THEN map
  ELSE AddToDocumentMap(IF ~HasId(map, Head(docs).id) /\ Len(map) < MAX_DOCUMENTS
                        THEN Append(map, Head(docs)) ELSE map,
                        Tail(docs))

\* what choices[0].message.content can be
Completions == {Undefined, "", "ab", "abc", " abc , de,fghi", "aaa,bbb,ccc,ddd,eee,fff"}

\* the messages of the per-term route
Messages == {"ab", "abc", "abc de fgh", "abc  fgh"}

\* results of the single search: n documents whose ids cycle through 1..m,
\* each marked with its position in the result
FoundLists ==
  {[i \in 1..n |-> [id |-> ((i - 1) % m) + 1, at |-> i]] : n \in 0..MaxFound, m \in 1..MaxFound}

\* results of one per-term search, and of getAllDocuments
TermDocs == SeqsUpTo({[id |-> i, at |-> 0] : i \in 1..2}, MaxTermDocs)

ChatInit ==
  /\ chat = NoChat
  /\ items = <<>> /\ pos = 0 /\ lastY = NoY /\ pushed = <<>> /\ joined = Undefined
  /\ reqs = <<>> /\ writes = <<>> /\ remote = NoRemote
  /\ calls = <<>> /\ issued = 0
  /\ http = NoHttp /\ oauth = NoOAuth
  /\ budget = 0
  /\ ServiceIdle("chat")

\* part_008 lines 65-68: the message is split into terms
ChatTermsPost(message) ==
  /\ caller = "chat" /\ chat.pc = "idle"
  /\ chat' = [NoChat EXCEPT !.pc = "search", !.variant = "terms",
                            !.terms = MessageTerms(message), !.pos = 1]
  /\ UNCHANGED <<envVars, callVars, aggVars, fetchVars, pc, result, hist, log,
                 parseVars, raceVars, concVars, http, oauth>>

\* part_008 lines 69-76: searchDocuments for the next term returns fs
ChatTermSearch(fs) ==
  /\ caller = "chat" /\ chat.pc = "search" /\ chat.variant = "terms"
  /\ chat.pos <= Len(chat.terms)
  /\ chat' = IF Len(Trim(chat.terms[chat.pos])) > 2
             THEN [chat EXCEPT !.pos = @ + 1, !.searches = @ + 1,
                               !.found = @ \o fs, !.documents = @ \o fs]
             ELSE [chat EXCEPT !.pos = @ + 1]
  /\ UNCHANGED <<envVars, callVars, aggVars, fetchVars, pc, result, hist, log,
                 parseVars, raceVars, concVars, http, oauth>>

\* part_008 line 78: documents = await getAllDocuments(user.id)
ChatGetAll(all) ==
  /\ caller = "chat" /\ chat.pc = "search" /\ chat.variant = "terms"
  /\ chat.pos > Len(chat.terms)
  /\ chat' = [chat EXCEPT !.documents = all, !.fellBack = TRUE, !.pc = "context"]
  /\ UNCHANGED <<envVars, callVars, aggVars, fetchVars, pc, result, hist, log,
                 parseVars, raceVars, concVars, http, oauth>>

\* part_009 lines 105-111: extractSearchTerms(message) returns
ChatExtractPost(content) ==
  /\ caller = "chat" /\ chat.pc = "idle"
  /\ chat' = [NoChat EXCEPT !.variant = "extract",
                            !.terms = ExtractSearchTerms(content),
                            !.pc = IF Len(ExtractSearchTerms(content)) > 0
                                   THEN "search" ELSE "context"]
  /\ UNCHANGED <<envVars, callVars, aggVars, fetchVars, pc, result, hist, log,
                 parseVars, raceVars, concVars, http, oauth>>

\* part_009 lines 113-121: the single searchDocuments call returns fs
ChatQuerySearch(fs) ==
  /\ caller = "chat" /\ chat.pc = "search" /\ chat.variant = "extract"
  /\ chat' = [chat EXCEPT !.searches = @ + 1, !.found = fs,
                          !.documents = AddToDocumentMap(<<>>, fs), !.pc = "context"]
  /\ UNCHANGED <<envVars, callVars, aggVars, fetchVars, pc, result, hist, log,
                 parseVars, raceVars, concVars, http, oauth>>

\* a searchDocuments / getAllDocuments call throws: the route answers 500
ChatCallThrows ==
  /\ caller = "chat" /\ chat.pc = "search"
  /\ chat' = [chat EXCEPT !.pc = "failed"]
  /\ UNCHANGED <<envVars, callVars, aggVars, fetchVars, pc, result, hist, log,
                 parseVars, raceVars, concVars, http, oauth>>

\* documentContext is built from documents and sent to the model
ChatContext ==
  /\ caller = "chat" /\ chat.pc = "context"
  /\ chat' = [chat EXCEPT !.pc = "done"]
  /\ UNCHANGED <<envVars, callVars, aggVars, fetchVars, pc, result, hist, log,
                 parseVars, raceVars, concVars, http, oauth>>

ChatNext ==
  \/ \E message \in Messages : ChatTermsPost(message)
  \/ \E fs \in TermDocs : ChatTermSearch(fs)
  \/ \E all \in TermDocs : ChatGetAll(all)
  \/ \E content \in Completions : ChatExtractPost(content)
  \/ \E fs \in FoundLists : ChatQuerySearch(fs)
  \/ ChatCallThrows
  \/ ChatContext

ChatSpec == ChatInit /\ [][ChatNext]_vars

(***************************************************************************)
(* The OAuth callback (src/app/api/auth/google/callback/route.ts): the     *)
(* cookie / state variant (lines 10-95) and the session variant that       *)
(* stores the encrypted token (lines 103-223)                              *)
(***************************************************************************)
\* the query parameters, cookies and session of a callback request
CallbackRequests ==
  [error : {Undefined, "access_denied"}, state : {Undefined, "s1", "s2"},
   storedState : {Undefined, "s1"}, userId : {Undefined, "u1"}, code : {Undefined, "c1"},
   session : BOOLEAN]

\* the requests of a user who went through the connect route and consented
ConsentedRequests ==
  {r \in CallbackRequests : r.error = Undefined /\ r.state = "s1" /\ r.storedState = "s1"
                            /\ r.userId = "u1" /\ r.code = "c1" /\ r.session}

\* bodies of a 2xx answer of the token endpoint to the code exchange
TokenData ==
  [access_token : {StoredToken}, refresh_token : {Undefined, "rt0"}, expires_in : {ExpiresIn}]

\* a state check that accepts any state parameter
StateUnchecked(stored, state) == TRUE

\* the test of line 24 passes: a stored state equal to the state parameter
StateVerified(stored, state) == ~(stored = Undefined \/ stored # state)

\* encryptToken (src/lib/encryption.ts lines 10-26): iv, ":" and the
\* ciphertext of the JSON text of the whole token object
EncryptToken(td) == "iv:aes{" \o td.access_token \o "}"

\* NextResponse.redirect to path with ?error=e, and a JSON answer
Redirect(o, path, e) == [o EXCEPT !.pc = "done", !.status = 307, !.to = path, !.error = e]
JsonAnswer(o, status, e) == [o EXCEPT !.pc = "done", !.status = status, !.error = e]

\* the handler up to the code exchange (lines 11-41 and 105-120)
CallbackGet(v, r) ==
  /\ pc = "idle" /\ caller = "agg" /\ oauth.pc = "idle"
  /\ LET o == [oauth EXCEPT !.variant = v, !.req = r,
                            !.cookies = {c \in {"oauth_state", "oauth_user_id"} :
                                           (c = "oauth_state" /\ r.storedState # Undefined)
                                           \/ (c = "oauth_user_id" /\ r.userId # Undefined)}]
     IN oauth' =
          IF v = "cookie"
          THEN IF r.error # Undefined THEN Redirect(o, "/", r.error)
               ELSE IF ~StateVerified(r.storedState, r.state) THEN Redirect(o, "/", "invalid_state")
               ELSE IF r.userId = Undefined THEN Redirect(o, "/", "no_user_id")
               ELSE IF r.code = Undefined THEN Redirect([o EXCEPT !.cookies = {}], "/", "no_code")
               ELSE [o EXCEPT !.cookies = {}, !.pc = "exchange"]
          ELSE IF ~r.session THEN JsonAnswer(o, 401, "Unauthorized")
               ELSE IF r.error # Undefined THEN Redirect(o, "/", r.error)
               ELSE IF r.code = Undefined THEN JsonAnswer(o, 400, "No code provided")
               ELSE [o EXCEPT !.pc = "exchange"]
  /\ UNCHANGED <<envVars, callVars, aggVars, fetchVars, pc, result, hist, log,
                 parseVars, raceVars, concVars, http, chat>>

\* the token endpoint answers non-2xx, or the request fails (lines 59-63,
\* 91-94, 135-139, 215-218)
ExchangeFails(answered) ==
  /\ oauth.pc = "exchange"
  /\ oauth' = Redirect(oauth, "/", IF oauth.variant = "cookie" /\ ~answered
                                   THEN "server_error" ELSE "token_exchange_failed")
  /\ UNCHANGED <<envVars, callVars, aggVars, fetchVars, pc, result, hist, log,
                 parseVars, raceVars, concVars, http, chat>>

\* the token endpoint answers 2xx with the body td (lines 65, 141-147)
ExchangeOk(td) ==
  /\ oauth.pc = "exchange"
  /\ oauth' = [oauth EXCEPT !.tokenData = td,
                            !.pc = IF oauth.variant = "cookie" THEN "upsert" ELSE "userinfo"]
  /\ UNCHANGED <<envVars, callVars, aggVars, fetchVars, pc, result, hist, log,
                 parseVars, raceVars, concVars, http, chat>>

\* the userinfo request of the session variant (lines 145-153)
UserInfo(ok) ==
  /\ oauth.pc = "userinfo"
  /\ oauth' = IF ok THEN [oauth EXCEPT !.pc = "upsert"]
              ELSE Redirect(oauth, "/", "token_exchange_failed")
  /\ UNCHANGED <<envVars, callVars, aggVars, fetchVars, pc, result, hist, log,
                 parseVars, raceVars, concVars, http, chat>>

\* the Credential db.token.upsert leaves (lines 68-87 and 172-191); a field
\* given as undefined is left as it was
Upserted(cred, v, td, t) ==
  [cred EXCEPT !.exists = TRUE,
               !.accessToken = IF v = "cookie" THEN td.access_token ELSE EncryptToken(td),
               !.refreshToken = IF td.refresh_token # Undefined THEN td.refresh_token ELSE @,
               !.expiresAt = t + td.expires_in * 1000]

\* db.token.upsert succeeds: redirect to the dashboard
UpsertToken ==
  /\ oauth.pc = "upsert"
  /\ store' = Upserted(store, oauth.variant, oauth.tokenData, now)
  /\ oauth' = Redirect(oauth, "/dashboard", Undefined)
  /\ UNCHANGED <<now, cache, budget, callVars, aggVars, fetchVars, pc, result, hist, log,
                 parseVars, raceVars, concVars, http, chat>>

\* the write throws (lines 91-94, 215-218)
UpsertFails ==
  /\ oauth.pc = "upsert"
  /\ oauth' = Redirect(oauth, "/", IF oauth.variant = "cookie" THEN "server_error"
                                   ELSE "token_exchange_failed")
  /\ UNCHANGED <<envVars, callVars, aggVars, fetchVars, pc, result, hist, log,
                 parseVars, raceVars, concVars, http, chat>>

CallbackInit ==
  /\ InitCommon
  /\ store \in {NoCred, Cred("rt1", 1)}
  /\ startStore = store
  /\ caller = "agg"
  /\ budget = MaxThrottles

CallbackSteps ==
  \/ \E answered \in BOOLEAN : ExchangeFails(answered)
  \/ \E td \in TokenData : ExchangeOk(td)
  \/ \E ok \in BOOLEAN : UserInfo(ok)
  \/ UpsertToken
  \/ UpsertFails

CallbackNext ==
  \/ \E v \in {"cookie", "session"}, r \in CallbackRequests : CallbackGet(v, r)
  \/ CallbackSteps

CallbackSpec == CallbackInit /\ [][CallbackNext]_vars

(***************************************************************************)
(* An account is connected through the callback, then an aggregator of     *)
(* src/lib/document-service.ts runs                                        *)
(***************************************************************************)
\* time passes until the stored access token has expired
Later ==
  /\ pc = "idle" /\ caller = "agg" /\ oauth.pc = "done"
  /\ store.exists /\ ~TokenExpired(now, store.expiresAt)
  /\ now' = store.expiresAt + 1
  /\ UNCHANGED <<store, cache, budget, callVars, aggVars, fetchVars, pc, result, hist, log,
                 otherVars>>

ConnectInit ==
  /\ InitCommon
  /\ store = NoCred
  /\ startStore = store
  /\ caller = "agg"
  /\ budget = MaxThrottles

ConnectNext ==
  \/ \E v \in {"cookie", "session"}, r \in ConsentedRequests : CallbackGet(v, r)
  \/ CallbackSteps
  \/ Later
  \/ \E o \in AggOps, q \in Queries :
       oauth.pc = "done" /\ (o = "getAllDocuments" => q = "") /\ Start(o, "lib", q)
  \/ FindToken
  \/ RefreshFails
  \/ \E body \in RefreshBodies : RefreshOk(body)
  \/ UpdateStore
  \/ UpdateStoreFails
  \/ \E st \in ListStatuses, j \in BOOLEAN : ListFails(st, j)
  \/ ListNetworkError
  \/ ListMalformed
  \/ \E fs \in Listings : ListOk(fs)
  \/ Loop
  \/ LibEnter
  \/ \E why \in LibFailures : LibGetFails(why)
  \/ \E text \in ListedTexts : LibGetOk(text)

ConnectSpec == ConnectInit /\ [][ConnectNext]_vars

(***************************************************************************)
(* Two users' aggregation calls, one after the other, in one process: the  *)
(* module-level documentCache (part_002 lines 593-599) outlives the calls  *)
(***************************************************************************)
\* the Credential of the second user
OtherCred ==
  [userId |-> "u2", provider |-> "google", accessToken |-> "bt0", refreshToken |-> "rt2",
   expiresAt |-> CACHE_TTL, exists |-> TRUE]

UsersInit ==
  /\ InitCommon
  /\ store = Cred("rt0", 1)
  /\ startStore = store
  /\ caller = "agg"
  /\ budget = 0

\* the first user's call is over; the next request is the second user's
SwitchUser ==
  /\ pc = "done" /\ caller = "agg" /\ store.userId = "u1"
  /\ store' = OtherCred /\ startStore' = OtherCred
  /\ pc' = "idle" /\ result' = NoResult /\ hist' = NoHist
  /\ op' = "" /\ variant' = "" /\ query' = "" /\ expiredAtStart' = FALSE
  /\ tok' = Undefined /\ refreshed' = NoBody
  /\ files' = <<>> /\ idx' = 0 /\ documents' = <<>> /\ retryCount' = 0
  /\ fid' = "" /\ ftok' = Undefined
  /\ UNCHANGED <<now, cache, budget, caller, mimeType, retries, fetches, fstart, log, otherVars>>

\* the steps of a call of the rich variant whose token has not expired, the
\* provider not throttling
RichSteps ==
  \/ FindToken
  \/ \E st \in ListStatuses, j \in BOOLEAN : ListFails(st, j)
  \/ ListNetworkError
  \/ ListMalformed
  \/ \E fs \in Listings : ListOk(fs)
  \/ Loop
  \/ FetchEnter
  \/ \E err \in ApiErrors : MetaFails(err)
  \/ \E m \in MimeTypes : MetaOk(m)
  \/ \E err \in ApiErrors : ContentFails(err)
  \/ \E text \in ListedTexts : ContentOk(text)
  \/ ExtractFails

UsersNext ==
  \/ Start("getAllDocuments", "rich", "")
  \/ SwitchUser
  \/ RichSteps

UsersSpec == UsersInit /\ [][UsersNext]_vars

\* query strings with quotes, short terms and repeated spaces
QuotedQueries == {"a", "ab", "a'", "''", "ab 'c' \"d", "it's  a"}

\* one searchDocuments call of the rich variant (part_002 lines 670-761)
SearchNext ==
  \/ \E q \in QuotedQueries : Start("searchDocuments", "rich", q)
  \/ RichSteps

SearchSpec == UsersInit /\ [][SearchNext]_vars

(***************************************************************************)
(* Properties                                                              *)
(***************************************************************************)
\* consecutive completed direct calls
LogPairs == {i \in 1..Len(log) : i + 1 <= Len(log)}

\* results of fetchDocumentContent for id that the code never writes to the cache
UncachedResults(id) ==
  {UnsupportedPlaceholder(m) : m \in UnsupportedMimes} \cup
  {NoContentPlaceholder(FileName(id))} \cup
  {ErrorPlaceholder(err) : err \in ApiErrors}

\* C1: when the stored Credential is expired at the start of searchDocuments
\* or getAllDocuments, the call issues exactly one refresh request, no
\* listing or content request is sent before it, and every Drive request
\* carries the refreshed access token, sent only after the Token Store write.
C1_RefreshOnExpiry ==
  (op \in AggOps /\ expiredAtStart) =>
    /\ hist.refresh <= 1 /\ hist.write <= 1
    /\ (pc \notin {"find", "refresh"} => hist.refresh = 1)
    /\ (hist.list > 0 \/ hist.meta > 0 => hist.refresh = 1 /\ hist.write = 1)
    /\ \A t \in hist.toks :
         /\ hist.write = 1
         /\ t = refreshed.access_token
         /\ (t # Undefined => store.accessToken = t)

C1_Witness ==
  /\ op \in AggOps /\ expiredAtStart
  /\ pc = "done" /\ result = Returned
  /\ hist.refresh = 1 /\ hist.list = 1 /\ hist.meta > 0
  /\ hist.toks = {FreshToken} /\ store.accessToken = FreshToken
  /\ Len(documents) > 0

\* C2 (as stated): an aggregation call that has listed N files returns
\* exactly N Documents, one per listed file in order, whatever the per-file
\* fetches ran into; a file whose fetch failed appears with a placeholder.
C2_Original ==
  (op \in AggOps /\ pc = "done" /\ result = Returned /\ hist.list = 1) =>
    /\ Len(documents) = Len(files)
    /\ \A k \in 1..Len(files) : documents[k].id = files[k].id

\* C3: when a fetchDocumentContent call leaves a cache entry for the id and
\* the next call for that id starts while the entry is younger than
\* CACHE_TTL, the next call returns the same content as the first and
\* issues no remote request.
C3_CacheIdempotence ==
  \A i \in LogPairs :
    LET a == log[i]
        b == log[i + 1]
    IN (a.id = b.id /\ a.after # NoEntry /\ b.start - a.after.timestamp < CACHE_TTL) =>
         /\ ~b.threw
         /\ b.content = a.content
         /\ b.meta = 0
         /\ b.after = a.after

C3_Witness ==
  \E i \in LogPairs :
    /\ log[i].id = log[i + 1].id
    /\ log[i].meta > 0 /\ log[i].after # NoEntry
    /\ log[i + 1].start - log[i].after.timestamp = CACHE_TTL - 1
    /\ log[i + 1].meta = 0
    /\ log[i + 1].content = log[i].content

\* C3 (as stated): whatever the first call produced, a second call starting
\* less than CACHE_TTL after the first completed returns the same content
\* without a remote request.
C3_Original ==
  \A i \in LogPairs :
    (log[i].id = log[i + 1].id /\ log[i + 1].start - log[i].end < CACHE_TTL) =>
      /\ log[i + 1].content = log[i].content
      /\ log[i + 1].meta = 0

\* C4: a fetchDocumentContent call that finds a cache entry at least
\* CACHE_TTL old fetches remotely, once per attempt (one more than its
\* 429 / 503 retries); it overwrites the entry, with the content it returns
\* and a timestamp taken during the call, exactly when it ends with content
\* the code caches, and leaves the old entry untouched otherwise.
C4_CacheExpiry ==
  \A i \in 1..Len(log) :
    LET b == log[i]
    IN (b.before # NoEntry /\ b.start - b.before.timestamp >= CACHE_TTL) =>
         /\ ~b.threw
         /\ b.meta >= 1
         /\ b.meta = b.retries + 1
         /\ IF b.content \in UncachedResults(b.id)
            THEN b.after = b.before
            ELSE /\ b.after.content = b.content
                 /\ b.start <= b.after.timestamp
                 /\ b.after.timestamp <= b.end

C4_Witness ==
  \E i \in 1..Len(log) :
    /\ log[i].before # NoEntry
    /\ log[i].start - log[i].before.timestamp >= CACHE_TTL
    /\ log[i].meta = 1
    /\ log[i].after # log[i].before
    /\ log[i].after.content = log[i].content

\* C4 (as stated): such a call issues exactly one remote fetch and always
\* overwrites the old entry with the newly fetched content.
C4_Original ==
  \A i \in 1..Len(log) :
    LET b == log[i]
    IN (b.before # NoEntry /\ b.start - b.before.timestamp >= CACHE_TTL) =>
         /\ b.meta = 1
         /\ b.after # b.before
         /\ b.after.content = b.content

\* C5 (as stated): every 429 / 503 answer to a request of
\* fetchDocumentContent is followed by the delay and a retry of the whole
\* fetch, so a completed call has retried as often as it was answered
\* 429 / 503, and a call in flight has at most one such answer pending.
C5_Original ==
  /\ \A i \in 1..Len(log) : log[i].throttled = log[i].retries
  /\ (caller = "direct" /\ pc \in {"f_enter", "f_meta", "f_content"}) =>
        hist.throttled = retries

\* C6 (as stated): a fetchDocumentContent call retries at most MAX_RETRIES
\* times, however often the provider answers 429 or 503.
C6_Original == retries <= MAX_RETRIES

\* the situations in which searchDocuments / getAllDocuments throw
ThrowCauses ==
  {"not_connected", "refresh_failed", "store_write_failed", "listing_status",
   "listing_network", "listing_body", "token_undefined"}

C8_NotConnected ==
  (op \in AggOps /\ ~startStore.exists) =>
    /\ pc \in {"find", "done"}
    /\ (pc = "done" => result = Threw("not_connected"))
    /\ hist = NoHist
    /\ store = startStore
    /\ documents = <<>>

C8_Witness ==
  /\ op \in AggOps /\ ~startStore.exists
  /\ pc = "done" /\ result = Threw("not_connected")

C10_RefreshFailure ==
  result.cause \in {"refresh_failed", "store_write_failed"} =>
    /\ result.kind \in {"threw", "response"}
    /\ (result.kind = "response" => result.status = 401)
    /\ hist.refresh <= 1
    /\ (op \in AggOps => hist.refresh = 1)
    /\ hist.list = 0 /\ hist.meta = 0 /\ hist.write = 0
    /\ hist.toks = {}
    /\ store = startStore

C10_Witness ==
  /\ op \in AggOps /\ pc = "done"
  /\ result = Threw("refresh_failed")
  /\ hist.refresh = 1 /\ store = startStore /\ store.exists

\* C11 (as stated): the refresh fails when the refresh token is missing and
\* when the 2xx body carries no access_token, so an aggregation call sends
\* no refresh request without a refresh token, and never persists or sends
\* an undefined access token.
C11_Original ==
  op \in AggOps =>
    /\ (startStore.refreshToken = Undefined => hist.refresh = 0)
    /\ (hist.write > 0 => refreshed.access_token # Undefined)
    /\ Undefined \notin hist.toks

\* the await points at which a Drive / Docs request of the call is in flight
RemoteCallPcs == {"list", "f_meta", "f_content", "l_get"}

\* C12 (as stated): no listing, metadata or content request of an
\* aggregation call is in flight with an access token whose Credential's
\* expiresAt has already passed.
C12_Original ==
  (op \in AggOps /\ pc \in RemoteCallPcs) => ~(now > store.expiresAt)

\* placeholders the pdf and binary cases substitute for a failed download or extraction
FailurePlaceholders(id) == {PdfErrorPlaceholder, BinaryErrorPlaceholder(FileName(id))}

\* C13 (as stated): every cache entry holds non-empty content that a
\* successful fetch produced, stamped no later than now; a failed fetch
\* leaves nothing in the cache.
C13_Original ==
  \A id \in FileIds :
    cache[id] # NoEntry =>
      /\ cache[id].content # ""
      /\ cache[id].timestamp <= now
      /\ cache[id].content \notin FailurePlaceholders(id)


\* the Document d was built from the listing record f
FromRecord(d, f) ==
  d.id = f.id /\ d.name = f.name /\ d.url = f.webViewLink /\ d.lastModified = f.modifiedTime

\* ds is, in order, built from a subsequence of the listing records fs
RECURSIVE SubsequenceOf(_, _)
SubsequenceOf(ds, fs) ==
  IF ds = <<>> THEN TRUE
  ELSE IF fs = <<>> THEN FALSE
  ELSE IF FromRecord(Head(ds), Head(fs)) THEN SubsequenceOf(Tail(ds), Tail(fs))
  ELSE SubsequenceOf(ds, Tail(fs))

\* C14: at every point of searchDocuments / getAllDocuments the Documents
\* collected so far are, in order, built from a subsequence of the listing
\* records already visited, each with the name, url and lastModified of its
\* record; so is the returned sequence.
C14_ListingOrder ==
  op \in AggOps =>
    /\ SubsequenceOf(documents, SubSeq(files, 1, Min(idx, Len(files))))
    /\ (pc \in {"loop", "done"} /\ idx >= 1 => SubsequenceOf(documents, SubSeq(files, 1, idx - 1)))
    /\ \A k \in 1..Len(documents) : \E j \in 1..Len(files) : documents[k].id = files[j].id

C14_Witness ==
  /\ op \in AggOps /\ pc = "done" /\ result = Returned
  /\ Len(files) = 2 /\ files[1].id # files[2].id
  /\ Len(documents) = 2
  /\ documents[1].id = files[1].id /\ documents[2].id = files[2].id

\* the await points inside fetchDocumentContent
FetchPcs == {"f_enter", "f_meta", "f_content", "f_wait", "l_enter", "l_get"}

\* C15: inside an aggregation call the one fetch in flight is the fetch of
\* file idx of the listing, every earlier file has been dealt with, and the
\* loop moves to the next file only when that fetch, with all its retries
\* and delays, has returned or thrown.
OneFetchInFlight ==
  /\ (op \in AggOps /\ pc \in FetchPcs) =>
        (idx \in 1..Len(files) /\ fid = files[idx].id /\ Len(documents) <= idx - 1)
  /\ (op \in AggOps /\ pc = "loop") => (retries = 0 /\ mimeType = "")

NextFileAfterCompletion ==
  /\ (op \in AggOps /\ pc \in FetchPcs /\ idx' # idx) =>
        (pc # "f_wait" /\ pc' = "loop" /\ idx' = idx + 1)
  /\ (op \in AggOps /\ pc = "f_wait") =>
        (pc' = "f_enter" /\ idx' = idx /\ fid' = fid /\ retries' = retries + 1)

C15_Sequential == []OneFetchInFlight /\ [][NextFileAfterCompletion]_vars

C15_Witness ==
  /\ op \in AggOps /\ pc = "f_meta"
  /\ idx = 2 /\ retries = 1
  /\ now > 1

UnsupportedReturnsPlaceholder ==
  \A m \in UnsupportedMimes :
    (pc = "f_meta" /\ MetaOk(m)) =>
      /\ pc' = (IF caller = "agg" THEN "loop" ELSE "idle")
      /\ hist'.meta = hist.meta + 1
      /\ cache' = cache
      /\ result' = result
      /\ (caller = "agg" =>
            /\ documents' = Append(documents,
                 [id |-> files[idx].id, name |-> files[idx].name,
                  content |-> "[Unsupported file type: " \o m \o "]",
                  url |-> files[idx].webViewLink,
                  lastModified |-> files[idx].modifiedTime])
            /\ idx' = idx + 1)

C19_UnsupportedType ==
  /\ [](pc = "f_content" => mimeType \in DOMAIN SUPPORTED_MIME_TYPES)
  /\ [][UnsupportedReturnsPlaceholder]_vars

C19_Witness ==
  /\ op \in AggOps /\ variant = "rich" /\ pc = "done" /\ result = Returned
  /\ Len(documents) = Len(files) /\ Len(files) > 0
  /\ \E k \in 1..Len(documents) : documents[k].content = "[Unsupported file type: image/png]"

\* the items of the page that are text runs, in order
RECURSIVE RunsOf(_)
RunsOf(its) ==
  IF its = <<>> THEN <<>>
  ELSE IF Head(its).str # Undefined THEN <<Head(its)>> \o RunsOf(Tail(its))
  ELSE RunsOf(Tail(its))

\* C20 (as stated): for every pair of consecutive text runs parseText has
\* appended, the second run's string is appended as it is when the two
\* transform[5] values are equal, and preceded by a newline when they
\* differ, whatever the values.
C20_Original ==
  LET runs == RunsOf(SubSeq(items, 1, Min(pos - 1, Len(items))))
  IN /\ Len(pushed) = Len(runs)
     /\ \A k \in 2..Len(pushed) :
          pushed[k] = IF runs[k - 1].y = runs[k].y THEN runs[k].str ELSE "\n" \o runs[k].str

\* C16 (as stated): all writes concurrent requests make to one cache key
\* within one TTL window carry the same content, so the final entry does
\* not depend on which write lands last.
C16_Original ==
  \A i, j \in DOMAIN writes :
    (writes[i].at - writes[j].at < CACHE_TTL /\ writes[j].at - writes[i].at < CACHE_TTL)
      => writes[i].content = writes[j].content

\* C17 (as stated): under concurrent aggregation calls on one Credential, no
\* call sends a remote request carrying an access token other than the one
\* the Token Store holds at that moment, i.e. one that a refresh committed
\* by another call has superseded.
C17_Original ==
  \A c \in DOMAIN calls : \A m \in calls[c].sent : m.carried = m.stored

\* the causes that are authentication failures
AuthFailures == {"no_session", "not_connected", "refresh_failed"}

\* C21 (as stated): on the HTTP surface every authentication failure (no
\* session, no Credential, failed token refresh) is answered with status 401
\* or 403, never 500.
C21_Original ==
  /\ (http.route \in LibRoutes /\ http.status # 0 /\ pc = "done"
        /\ result.kind = "threw" /\ result.cause \in AuthFailures)
       => http.status \in {401, 403}
  /\ (op = "GET" /\ result.kind = "response" /\ result.cause \in AuthFailures)
       => result.status \in {401, 403}

\* a listing attempt of the docs search route answered 401 with retries left
RejectedAndRetried == op = "GET" /\ ListFails(401, TRUE) /\ pc' = "list"

RetryCarriesNewToken == RejectedAndRetried => (tok' # tok /\ hist'.refresh > hist.refresh)

\* C22 (as stated): in the docs search route, when a listing attempt is
\* answered 401 and retries remain, a token refresh is made before the next
\* attempt, which carries a newly refreshed access token and not the one
\* just rejected.
C22_Original == [][RetryCarriesNewToken]_vars

\* C23 (as stated): in the per-term chat route getAllDocuments is called, and
\* its result used as the context, only when the per-term searches found no
\* documents; when they found some, the context is their concatenation.
C23_Original ==
  (chat.variant = "terms" /\ chat.pc \in {"context", "done"})
    => /\ chat.fellBack => chat.found = <<>>
       /\ chat.found # <<>> => chat.documents = chat.found

\* position of the first document with the id of fs[i]
FirstAt(fs, i) == CHOOSE k \in 1..i : fs[k].id = fs[i].id /\ \A j \in 1..(k - 1) : fs[j].id # fs[i].id

\* the first occurrences of the first MAX_DOCUMENTS distinct ids of fs
FirstDistinct(fs) ==
  {fs[i] : i \in {k \in 1..Len(fs) :
                    /\ FirstAt(fs, k) = k
                    /\ Cardinality({fs[j].id : j \in 1..(k - 1)}) < MAX_DOCUMENTS}}

\* C26: in the chat route with extracted terms the documents of the context
\* are unique by id, at most MAX_DOCUMENTS, and are the first distinct
\* documents of the search result in its order; at most MAX_SEARCH_TERMS
\* terms are used, each at least MIN_TERM_LENGTH long, and searchDocuments
\* is called at most once.
C26_DocumentContext ==
  chat.variant = "extract"
    => /\ \A i, j \in 1..Len(chat.documents) :
            chat.documents[i].id = chat.documents[j].id => i = j
       /\ Len(chat.documents) <= MAX_DOCUMENTS
       /\ {chat.documents[i] : i \in 1..Len(chat.documents)} = FirstDistinct(chat.found)
       /\ \A i, j \in 1..Len(chat.documents) : i < j => chat.documents[i].at < chat.documents[j].at
       /\ Len(chat.terms) <= MAX_SEARCH_TERMS
       /\ \A i \in 1..Len(chat.terms) : Len(chat.terms[i]) >= MIN_TERM_LENGTH
       /\ chat.searches <= 1
       /\ chat.pc = "search" => Len(chat.terms) > 0

\* the search returned more than MAX_DOCUMENTS distinct documents and some
\* twice, for six extracted terms
C26_Witness ==
  /\ chat.variant = "extract" /\ chat.pc = "done"
  /\ Len(chat.terms) = MAX_SEARCH_TERMS
  /\ Cardinality({chat.found[i].id : i \in 1..Len(chat.found)}) > MAX_DOCUMENTS
  /\ Len(chat.found) > Cardinality({chat.found[i].id : i \in 1..Len(chat.found)})
  /\ Len(chat.documents) = MAX_DOCUMENTS

\* what the cookie variant needs before it writes: the state parameter equal
\* to the oauth_state cookie, the oauth_user_id cookie and a code
CallbackAccepted(r) ==
  r.storedState # Undefined /\ r.state = r.storedState /\ r.userId # Undefined /\ r.code # Undefined

WritesOnlyWhenAccepted ==
  (oauth.variant = "cookie" /\ store' # store)
    => /\ CallbackAccepted(oauth.req)
       /\ oauth.tokenData \in TokenData
       /\ store' = Upserted(store, "cookie", oauth.tokenData, now)

\* C24: the cookie / state callback creates or updates the Credential only
\* if the state parameter equals the oauth_state cookie, the oauth_user_id
\* cookie and a code are present and the code exchange answered 2xx; in
\* every other case the Token Store is unchanged and the user is redirected
\* with an error.
C24_CallbackGuard ==
  /\ [][WritesOnlyWhenAccepted]_vars
  /\ []((oauth.variant = "cookie" /\ oauth.pc = "done"
           /\ (~CallbackAccepted(oauth.req) \/ oauth.tokenData \notin TokenData))
          => (store = startStore /\ oauth.to = "/" /\ oauth.error # Undefined))

\* an accepted callback has updated an existing Credential, keeping its
\* refresh token
C24_Witness ==
  /\ oauth.variant = "cookie" /\ oauth.pc = "done" /\ oauth.to = "/dashboard"
  /\ startStore.exists /\ store # startStore
  /\ store.accessToken = oauth.tokenData.access_token
  /\ store.refreshToken = "rt1"

\* the access tokens the OAuth provider hands out: in the code exchange and
\* in a refresh
ProviderTokens == {StoredToken, FreshToken}

\* C30 (as stated): after an account was connected through the callback,
\* every listing and content request of an aggregation call carries an
\* access token issued by the OAuth provider, never a value derived from one.
C30_Original == oauth.pc = "done" => hist.toks \subseteq ProviderTokens

\* C27 (as stated): the content of a Document returned to the second user
\* was obtained by remote calls carrying that user's own access token: the
\* first Document of the call cannot be there before the call has sent a
\* metadata request, and every request of the call carries its own token.
C27_Original ==
  (store.userId = "u2" /\ op = "getAllDocuments")
    => /\ hist.toks \subseteq {OtherCred.accessToken}
       /\ Len(documents) >= 1 => hist.meta >= 1

\* the characters of s
Chars(s) == {SubSeq(s, i, i) : i \in 1..Len(s)}

\* C25 (as stated): every term the rich searchDocuments embeds in the
\* listing query has length at least 2 and holds no single or double quote.
C25_Original ==
  (op = "searchDocuments" /\ variant = "rich" /\ hist.list > 0)
    => \A i \in 1..Len(CleanTerms(query)) :
         /\ Len(CleanTerms(query)[i]) >= 2
         /\ Chars(CleanTerms(query)[i]) \cap {"'", "\""} = {}

\* the cache lookup of a direct call returns content
ServedFromCache ==
  pc = "f_enter" /\ Len(log') = Len(log) + 1 /\ ~log'[Len(log')].threw

ServesOnlyFreshEntries ==
  /\ ServedFromCache
       => /\ cache[fid] # NoEntry
          /\ now - cache[fid].timestamp < CACHE_TTL
          /\ log'[Len(log')].content = cache[fid].content
  /\ (pc = "f_enter" /\ cache[fid] # NoEntry /\ now - cache[fid].timestamp >= CACHE_TTL)
       => /\ pc' = "f_meta"
          /\ log' = log

\* C28: fetchDocumentContent returns cached content only from an entry whose
\* age is below CACHE_TTL; an entry aged exactly CACHE_TTL or more is not
\* served and the call goes on to fetch remotely; no entry has a timestamp
\* later than the current time.
C28_CacheFreshness ==
  /\ [][ServesOnlyFreshEntries]_vars
  /\ [](\A id \in FileIds : cache[id] # NoEntry => cache[id].timestamp <= now)

\* a call that found an entry aged exactly CACHE_TTL has gone on to the
\* metadata request
C28_Witness ==
  /\ caller = "direct" /\ pc = "f_meta"
  /\ cache[fid] # NoEntry
  /\ now - cache[fid].timestamp = CACHE_TTL

\* the call c committed the access token its refresh returned
Committed(c) == calls[c].tok = calls[c].body.access_token

\* C29 (as stated): for concurrent aggregation calls on one expired
\* Credential at most one refresh request is sent to the OAuth provider, and
\* once all calls have finished, every refreshing call having committed, the
\* stored accessToken is the one the provider's last refresh returned.
C29_Original ==
  /\ issued <= 1
  /\ (/\ issued > 0
      /\ \A c \in DOMAIN calls : calls[c].pc = "done"
      /\ \A c \in DOMAIN calls : calls[c].body # NoBody => Committed(c))
       => store.accessToken = IssuedToken(issued)

====
